---------------------------- MODULE Spec2Model ----------------------------
(***************************************************************************)
(* A model of the platformer core (src/src/lib.rs, src/src/main.rs):       *)
(* the player's direction state machine, the per-tick physics and          *)
(* animation, the boundary clamp and the camera.                           *)
(*                                                                         *)
(* Floating-point quantities (Velocity, Acceleration) are held in fixed    *)
(* point: an integer n stands for n / FP.  Products with the decay         *)
(* factors and the casts `as i64` truncate toward zero.                    *)
(***************************************************************************)
EXTENDS Integers, Sequences, FiniteSets, TLC

VARIABLES
    me,           \* game.player.me : MoveableEntity (with its Entity and Animation)
    camera,       \* game.camera    : Camera
    current_map,  \* game.current_map : the active map (main.rs sets it before the loop)
    running,      \* game.running
    pc,           \* where the program is: "loop", "done", "panic", or "api"
    op,           \* history: the operation the last step applied, with its arguments
    hist          \* history: counters the temporal claims read

vars == <<me, camera, current_map, running, pc, op, hist>>

-----------------------------------------------------------------------------
(* Value types                                                             *)

\* enum Direction
Direction == {"Up", "DoubleUp", "Down", "Left", "StillLeft", "Right", "StillRight", "Landed"}

Airborne == {"Up", "DoubleUp"}

\* The seven directions main.rs gives animation-table entries for.
TableDirs == Direction \ {"Landed"}

\* One unit of a Velocity / Acceleration component is 1 / FP.
FP == 100

TruncDiv(n, d) == IF n >= 0 THEN n \div d ELSE -((-n) \div d)

\* `x as i64` for a fixed-point x: truncation toward zero.
AsI64(x) == TruncDiv(x, FP)

Point(px, py) == [x |-> px, y |-> py]

Rect(rx, ry, rw, rh) == [x |-> rx, y |-> ry, w |-> rw, h |-> rh]

-----------------------------------------------------------------------------
(* MoveableEntity: direction changes and the boundary clamp                *)

\* Player::new always gives the entity Some(Animation): anim is a record.
reset_anim(m) == [m EXCEPT !.anim.sc = 1, !.anim.ac = 0]

\* Faulty variants of change_dir: the airborne lock tested before the Landed
\* request; the lock forgetting DoubleUp.
change_dir_lock_first(m, d) ==
    IF m.dir = "Up" \/ m.dir = "DoubleUp"
    THEN m
    ELSE IF d = "Landed"
    THEN [m EXCEPT !.dir = m.l_dir, !.l_dir = d]
    ELSE LET m1 == [m EXCEPT !.l_dir = m.dir, !.dir = d]
         IN  IF d = "StillLeft" \/ d = "StillRight" THEN reset_anim(m1) ELSE m1

change_dir_lock_up_only(m, d) ==
    IF d = "Landed"
    THEN [m EXCEPT !.dir = m.l_dir, !.l_dir = d]
    ELSE IF m.dir = "Up"
    THEN m
    ELSE LET m1 == [m EXCEPT !.l_dir = m.dir, !.dir = d]
         IN  IF d = "StillLeft" \/ d = "StillRight" THEN reset_anim(m1) ELSE m1

change_dir(m, d) ==
    IF d = "Landed"
    THEN [m EXCEPT !.dir = m.l_dir, !.l_dir = d]
    ELSE IF m.dir = "Up" \/ m.dir = "DoubleUp"
    THEN m
    ELSE LET m1 == [m EXCEPT !.l_dir = m.dir, !.dir = d]
         IN  IF d = "StillLeft" \/ d = "StillRight" THEN reset_anim(m1) ELSE m1

\* The x axis of keep_on_screen: the collision rect's offset is honoured.
keep_on_screen_x(m, w) ==
    IF m.collision_rect.x + m.pos.x < 0
    THEN [m EXCEPT !.pos.x = -m.collision_rect.x]
    ELSE IF m.collision_rect.x + m.pos.x + m.collision_rect.w > w
    THEN [m EXCEPT !.pos.x = w - (m.collision_rect.w + m.collision_rect.x)]
    ELSE m

\* The y axis of keep_on_screen: the position itself is clamped, and a clamp at
\* the bottom while airborne lands the entity.
keep_on_screen_y(m, h) ==
    IF m.pos.y < 0
    THEN [m EXCEPT !.pos.y = 0]
    ELSE IF m.pos.y + m.collision_rect.h > h
    THEN LET m1 == [m EXCEPT !.pos.y = h - m.collision_rect.h]
         IN  IF m1.dir \in {"Up", "DoubleUp"} THEN change_dir(m1, "Landed") ELSE m1
    ELSE m

keep_on_screen(m, w, h) == keep_on_screen_y(keep_on_screen_x(m, w), h)

\* Whether keep_on_screen(m, w, h) takes the branch that calls change_dir(Landed).
LandsOn(m, h) ==
    /\ ~(m.pos.y < 0)
    /\ m.pos.y + m.collision_rect.h > h
    /\ m.dir \in {"Up", "DoubleUp"}

-----------------------------------------------------------------------------
(* Player::jump                                                            *)

JUMP_VELOCITY == -55 * FP

\* A faulty variant of jump: the second jump requested through change_dir,
\* which the airborne lock ignores.
jump_via_change_dir(m) ==
    IF m.dir = "DoubleUp" THEN m
    ELSE LET m1 == IF m.dir = "Up" THEN change_dir(m, "DoubleUp")
                   ELSE change_dir(m, "Up")
         IN  [m1 EXCEPT !.v.y = JUMP_VELOCITY]

\* A faulty variant of jump: the second jump goes through the bookkeeping of
\* a direction change and overwrites the remembered direction.
jump_overwrites_last(m) ==
    IF m.dir = "DoubleUp" THEN m
    ELSE LET m1 == IF m.dir = "Up" THEN [m EXCEPT !.l_dir = m.dir, !.dir = "DoubleUp"]
                   ELSE change_dir(m, "Up")
         IN  [m1 EXCEPT !.v.y = JUMP_VELOCITY]

\* A faulty variant of jump: no budget, a jump is taken in every direction.
jump_no_budget(m) ==
    LET m1 == IF m.dir = "Up" \/ m.dir = "DoubleUp" THEN [m EXCEPT !.dir = "DoubleUp"]
              ELSE change_dir(m, "Up")
    IN  [m1 EXCEPT !.v.y = JUMP_VELOCITY]

jump(m) ==
    IF m.dir = "DoubleUp" THEN m
    ELSE LET m1 == IF m.dir = "Up" THEN [m EXCEPT !.dir = "DoubleUp"]
                   ELSE change_dir(m, "Up")
         IN  [m1 EXCEPT !.v.y = JUMP_VELOCITY]

-----------------------------------------------------------------------------
(* Updateable for MoveableEntity: the still transition and the animation   *)

\* The u8 cursors wrap modulo this.
U8 == 256

\* The table lookups `.get(&self.dir).unwrap()`, the division and the
\* remainder of the animation step panic on these states.
AnimPanics(m) ==
    \/ m.dir \notin DOMAIN m.anim.dir_to_anim_len
    \/ m.dir \notin DOMAIN m.anim.dir_to_frames
    \/ m.anim.dir_to_frames[m.dir] = 0
    \/ m.anim.dir_to_anim_len[m.dir] \div m.anim.dir_to_frames[m.dir] = 0

\* A faulty variant of still_if_stopped: only an entity going right becomes
\* still.
still_if_stopped_right_only(m) ==
    IF m.v.x = 0 /\ m.dir = "Right" THEN change_dir(m, "StillRight") ELSE m

\* The first block of update: a horizontal entity at rest becomes still.
still_if_stopped(m) ==
    IF m.v.x = 0
    THEN CASE m.dir = "Right" -> change_dir(m, "StillRight")
           [] m.dir = "Left"  -> change_dir(m, "StillLeft")
           [] OTHER           -> m
    ELSE m

\* Whether update reaches the animation step.
Animates(m) == m.draw_rect

\* A faulty variant of advance_anim: the tick cursor wraps to 0.
advance_anim_wrap_zero(m) ==
    LET anim_len     == m.anim.dir_to_anim_len[m.dir]
        frame_count  == m.anim.dir_to_frames[m.dir]
        change_every == anim_len \div frame_count
        sc1 == IF m.anim.ac % change_every = 0
               THEN IF (m.anim.sc + 1) % U8 > frame_count - 1 THEN 0
                    ELSE (m.anim.sc + 1) % U8
               ELSE m.anim.sc
        ac1 == IF (m.anim.ac + 1) % U8 > anim_len THEN 0 ELSE (m.anim.ac + 1) % U8
    IN  [m EXCEPT !.anim.sc = sc1, !.anim.ac = ac1]

\* The animation step: advance the frame cursor sc every change_every ticks and
\* the tick cursor ac every tick.
advance_anim(m) ==
    LET anim_len     == m.anim.dir_to_anim_len[m.dir]
        frame_count  == m.anim.dir_to_frames[m.dir]
        change_every == anim_len \div frame_count
        sc1 == IF m.anim.ac % change_every = 0
               THEN IF (m.anim.sc + 1) % U8 > frame_count - 1 THEN 0
                    ELSE (m.anim.sc + 1) % U8
               ELSE m.anim.sc
        ac1 == IF (m.anim.ac + 1) % U8 > anim_len THEN 1 ELSE (m.anim.ac + 1) % U8
    IN  [m EXCEPT !.anim.sc = sc1, !.anim.ac = ac1]

\* Whether the animation step of this update advances the frame cursor.
AdvancesFrame(m) ==
    LET m1 == still_if_stopped(m)
    IN  /\ Animates(m1)
        /\ ~AnimPanics(m1)
        /\ m1.anim.ac % (m1.anim.dir_to_anim_len[m1.dir] \div m1.anim.dir_to_frames[m1.dir]) = 0

MoveableEntity_update_panics(m) ==
    LET m1 == still_if_stopped(m) IN Animates(m1) /\ AnimPanics(m1)

\* A faulty variant of update: the still transition (and its cursor reset)
\* after the animation step.
MoveableEntity_update_still_last(m) ==
    still_if_stopped(IF ~Animates(m) THEN m ELSE advance_anim(m))

MoveableEntity_update(m) ==
    LET m1 == still_if_stopped(m)
    IN  IF ~Animates(m1) THEN m1 ELSE advance_anim(m1)

-----------------------------------------------------------------------------
(* Updateable for Player: the physics integrator                           *)

GRAVITY == (98 * FP) \div 10

MOVEABLE_VELOCITY_CUTOFF == 2 * FP

MOVEABLE_ACCELERATION_CUTOFF == FP \div 10

\* v * 0.2, v * 0.7, a * 0.80
DecayVX(x) == TruncDiv(x * 2, 10)

DecayVY(y) == TruncDiv(y * 7, 10)

\* A faulty variant of DecayAX: the acceleration does not decay.
DecayAX_none(x) == x

DecayAX(x) == TruncDiv(x * 8, 10)

\* A faulty variant of Cutoff: only positive values are snapped.
Cutoff_positive_only(x, cutoff) == IF x < cutoff /\ x > 0 THEN 0 ELSE x

\* `if x < cutoff && x > -cutoff { x = 0.0 }`
Cutoff(x, cutoff) == IF x < cutoff /\ x > -cutoff THEN 0 ELSE x

integrate(m) ==
    LET ay == GRAVITY
        px == m.pos.x + AsI64(m.v.x)
        py == m.pos.y + AsI64(m.v.y)
        vx == Cutoff(DecayVX(m.v.x + m.a.x), MOVEABLE_VELOCITY_CUTOFF)
        vy == Cutoff(DecayVY(m.v.y + ay), MOVEABLE_VELOCITY_CUTOFF)
        ax == Cutoff(DecayAX(m.a.x), MOVEABLE_ACCELERATION_CUTOFF)
    IN  [m EXCEPT !.pos = Point(px, py), !.v = [x |-> vx, y |-> vy],
                  !.a = [x |-> ax, y |-> ay]]

Player_update_panics(m) == MoveableEntity_update_panics(integrate(m))

Player_update(m) == MoveableEntity_update(integrate(m))

-----------------------------------------------------------------------------
(* Map dimensions and Game::update_camera                                  *)

pixel_width(map) == map.width * map.tile_width

pixel_height(map) == map.height * map.tile_height

\* A faulty variant of camera_follow_x: no dead zone, the camera keeps the
\* dead zone's left edge on the player's.
camera_follow_x_no_dead_zone(c, m) ==
    m.pos.x + m.collision_rect.x - c.collision_rect.x

\* The dead-zone shift on the x axis.
camera_follow_x(c, m) ==
    LET camera_left  == c.pos.x + c.collision_rect.x
        camera_right == c.pos.x + c.collision_rect.x + c.collision_rect.w
        player_left  == m.pos.x + m.collision_rect.x
        player_right == m.pos.x + m.collision_rect.x + m.collision_rect.w
    IN  IF player_right > camera_right
        THEN player_right - c.collision_rect.w - c.collision_rect.x
        ELSE IF player_left < camera_left
        THEN player_left - c.collision_rect.x
        ELSE c.pos.x

\* The dead-zone shift on the y axis.
camera_follow_y(c, m) ==
    LET camera_top    == c.pos.y + c.collision_rect.y
        camera_bottom == c.pos.y + c.collision_rect.y + c.collision_rect.h
        player_top    == m.pos.y + m.collision_rect.y
        player_bottom == m.pos.y + m.collision_rect.y + m.collision_rect.h
    IN  IF player_bottom > camera_bottom
        THEN player_bottom - c.collision_rect.h
        ELSE IF player_top < camera_top
        THEN player_top
        ELSE c.pos.y

\* A faulty variant of camera_clamp: the lower limit forgotten.
camera_clamp_no_floor(p, size, limit) ==
    IF p + size > limit THEN limit - size ELSE p

\* "keep the camera within the map", one axis: p the position, size the
\* viewport's extent, limit the map's pixel extent.
camera_clamp(p, size, limit) ==
    IF p + size > limit THEN limit - size
    ELSE IF p < 0 THEN 0
    ELSE p

update_camera(c, m, map) ==
    [c EXCEPT !.pos = Point(camera_clamp(camera_follow_x(c, m), c.width, pixel_width(map)),
                            camera_clamp(camera_follow_y(c, m), c.height, pixel_height(map)))]

-----------------------------------------------------------------------------
(* Construction                                                            *)

\* Animation::new
Animation_new(dtal, dtf, reverse) ==
    [sc |-> 1, dir_to_anim_len |-> dtal, ac |-> 0, dir_to_frames |-> dtf,
     reverse |-> reverse]

\* Player::new / MoveableEntity::new: both directions are d, at rest.
\* draw_rect is TRUE for Some(rect) and FALSE for None.
Player_new(p, cr, dr, d, dtal, dtf, reverse) ==
    [pos |-> p, collision_rect |-> cr, draw_rect |-> dr,
     dir |-> d, l_dir |-> d,
     v |-> [x |-> 0, y |-> 0], a |-> [x |-> 0, y |-> 0],
     anim |-> Animation_new(dtal, dtf, reverse)]

Camera_new(p, w, h, cr) == [pos |-> p, width |-> w, height |-> h, collision_rect |-> cr]

-----------------------------------------------------------------------------
(* Updateable for System and Game: one tick                                *)

HORIZONTAL_ACCELERATION == (95 * FP) \div 10

\* The event loop: every Space key-down calls jump; Quit and Escape clear
\* running; the loop does not stop early.
RECURSIVE process_events(_, _)
process_events(m, evs) ==
    IF evs = <<>> THEN m
    ELSE process_events(IF Head(evs) = "Space" THEN jump(m) ELSE m, Tail(evs))

\* A faulty variant of quit_seen: only the last event polled counts.
quit_seen_last_only(evs) == evs # <<>> /\ evs[Len(evs)] = "Quit"

quit_seen(evs) == \E i \in 1..Len(evs) : evs[i] = "Quit"

\* The continuous key state: Left wins over Right.
horizontal_input(m, key) ==
    CASE key = "Left"  -> change_dir([m EXCEPT !.a.x = m.a.x - HORIZONTAL_ACCELERATION], "Left")
      [] key = "Right" -> change_dir([m EXCEPT !.a.x = m.a.x + HORIZONTAL_ACCELERATION], "Right")
      [] OTHER         -> m

\* The player as Game::update receives it.
before_game_update(m, evs, key) == horizontal_input(process_events(m, evs), key)

\* The player at the end of System::update.
System_update_me(m, evs, key, map) ==
    keep_on_screen(Player_update(before_game_update(m, evs, key)),
                   map.width * map.tile_width, map.height * map.tile_height)

\* The camera at the end of System::update: Game::update recenters it on the
\* player as Player::update left it.
System_update_camera(c, m, evs, key, map) ==
    update_camera(c, Player_update(before_game_update(m, evs, key)), map)

\* CameraDrawable for MoveableEntity: the table lookups of draw.
draw_panics(m) ==
    /\ m.draw_rect
    /\ m.dir \notin DOMAIN m.anim.dir_to_frames

\* CameraDrawable for MoveableEntity: the frame index `sc` draw multiplies the
\* frame width with.  frames and anim.sc are u8: the difference wraps in a
\* build without overflow checks.
draw_frame_index(m) ==
    LET frames == m.anim.dir_to_frames[m.dir]
    IN  IF m.anim.reverse /\ frames > 1
        THEN (frames - m.anim.sc) % U8
        ELSE m.anim.sc

\* Whether `frames - anim.sc` overflows: a panic in a build with overflow
\* checks.
draw_underflows(m) ==
    /\ m.draw_rect
    /\ m.dir \in DOMAIN m.anim.dir_to_frames
    /\ m.anim.reverse
    /\ m.anim.dir_to_frames[m.dir] > 1
    /\ m.anim.sc > m.anim.dir_to_frames[m.dir]

\* Where the iteration's draw can leave the loop when it goes to `next`
\* otherwise.
draw_outcomes(m, next) ==
    IF draw_panics(m) THEN {"panic"}
    ELSE IF draw_underflows(m) THEN {"panic", next}
    ELSE {next}

-----------------------------------------------------------------------------
(* The game: main.rs's loop `while sys.game.running { update; draw }`      *)

\* Bounds of the model.  The left/right keys are held during one stretch of
\* at most MaxKeyTicks ticks of a run (the stretch starts at any tick and may
\* switch between the keys); one tick polls at most MaxEvents events.
MaxKeyTicks == 2

MaxEvents == 2

\* Animation tables: Left and Right have two frames, the others one (main.rs:
\* eight and one); the cycle lengths are either equal for all directions
\* (main.rs: FPS for each) or longer for the airborne directions.
GameFrames == [d \in TableDirs |-> IF d \in {"Left", "Right"} THEN 2 ELSE 1]

UniformLen == [d \in TableDirs |-> 2]

AirborneLongerLen == [d \in TableDirs |-> IF d \in Airborne THEN 4 ELSE 2]

\* The player's collision rect of main.rs.
MainRect == Rect(10, 0, 32, 60)

\* A map of 11 x 16 tiles of 4 x 4 pixels, and a camera of 40 x 62 pixels
\* whose dead zone is 36 x 60 pixels.
GameMap == [width |-> 11, height |-> 16, tile_width |-> 4, tile_height |-> 4]

GameCamera == Camera_new(Point(0, 0), 40, 62, Rect(2, 1, 36, 60))

\* A collision rect with an offset on the y axis, which fits in the dead zone
\* of the camera above.
OffsetRect == Rect(0, 5, 32, 55)

\* The players the game is started with: every direction with entries in the
\* tables, with a live animation; two players without a draw rect; and one
\* whose collision rect has an offset on the y axis.
Setups ==
    {[d |-> d, dr |-> TRUE, len |-> AirborneLongerLen, cr |-> MainRect] : d \in TableDirs}
    \cup {[d |-> "Right", dr |-> TRUE, len |-> UniformLen, cr |-> MainRect],
          [d |-> "Right", dr |-> FALSE, len |-> UniformLen, cr |-> MainRect],
          [d |-> "Up", dr |-> FALSE, len |-> UniformLen, cr |-> MainRect],
          [d |-> "Right", dr |-> FALSE, len |-> UniformLen, cr |-> OffsetRect]}

NoOp == [name |-> "new", arg |-> "-", w |-> 0, h |-> 0]

\* History.  keys, over: the ticks a key was held, and whether the stretch is
\* over.  jumps: the jump() calls that took effect since the last landing.
\* landed: whether the last tick's keep_on_screen landed the player.
\* anim_dir: the direction the last animation step ran with.  gap, last_gap,
\* from: updates since the last frame advance, updates between the last two
\* advances (0: fewer than two yet), frame cursor before the last advance
\* (-1: none yet).  follow: the camera position update_camera computed before
\* clamping it to the map.  pre: the entity as the last API call found it.
\* seen: the player position the tick's update_camera read.  jumped_from: the
\* direction the flight in progress (or ended by the last call) started from
\* with a jump ("-": none).
NoHist ==
    [keys |-> 0, over |-> FALSE, jumps |-> 0, landed |-> FALSE, anim_dir |-> "-",
     gap |-> 0, last_gap |-> 0, from |-> -1, follow |-> Point(0, 0), pre |-> "-",
     seen |-> Point(0, 0), jumped_from |-> "-"]

EventSeqs == UNION {[1..n -> {"Space", "Quit"}] : n \in 0..MaxEvents}

Keys == {"None", "Left", "Right"}

\* How many of the jump() calls of this event loop take effect.
RECURSIVE effective_jumps(_, _)
effective_jumps(m, evs) ==
    IF evs = <<>> THEN 0
    ELSE IF Head(evs) = "Space"
    THEN (IF m.dir = "DoubleUp" THEN 0 ELSE 1) + effective_jumps(jump(m), Tail(evs))
    ELSE effective_jumps(m, Tail(evs))

Init ==
    /\ \E s \in Setups :
         me = Player_new(Point(0, 0), s.cr, s.dr, s.d, s.len, GameFrames, TRUE)
    /\ camera = GameCamera
    /\ current_map = GameMap
    /\ running = TRUE
    /\ pc = "loop"
    /\ op = NoOp
    /\ hist = NoHist

\* One iteration of main's loop: sys.update(), sys.game.draw() (whose lookups
\* of the direction in the animation tables may panic), and the loop test.
Frame ==
    /\ pc = "loop"
    /\ running
    /\ \E evs \in EventSeqs, key \in Keys :
         LET m0 == before_game_update(me, evs, key)
             m1 == System_update_me(me, evs, key, current_map)
             lands == LandsOn(keep_on_screen_x(Player_update(m0), pixel_width(current_map)),
                              pixel_height(current_map))
         IN  /\ key # "None" => hist.keys < MaxKeyTicks /\ ~hist.over
             /\ op' = [NoOp EXCEPT !.name = "frame",
                                   !.arg = IF "Quit" \in {evs[i] : i \in DOMAIN evs}
                                           THEN "quit" ELSE "-"]
             /\ running' = IF quit_seen(evs) THEN FALSE ELSE running
             /\ IF Player_update_panics(m0)
                THEN /\ pc' = "panic"
                     /\ me' = m0
                     /\ UNCHANGED <<camera, hist>>
                ELSE /\ pc' \in draw_outcomes(m1, IF quit_seen(evs) THEN "done" ELSE "loop")
                     /\ me' = m1
                     /\ camera' = System_update_camera(camera, me, evs, key, current_map)
                     /\ hist' = [hist EXCEPT
                                   !.keys = @ + (IF key = "None" THEN 0 ELSE 1),
                                   !.over = @ \/ (key = "None" /\ hist.keys > 0),
                                   !.jumps = IF lands THEN 0 ELSE @ + effective_jumps(me, evs),
                                   !.landed = lands,
                                   !.anim_dir = still_if_stopped(integrate(m0)).dir,
                                   !.seen = Player_update(m0).pos]
    /\ UNCHANGED current_map

Next == Frame

Spec == Init /\ [][Next]_vars

-----------------------------------------------------------------------------
(* The entity's methods called one by one, from any entity state           *)

EntityPoints == {Point(x, y) : x \in {-4, 0, 9}, y \in {-2, 0, 9}}

\* Collision rects of 4 x 6 pixels: without offset, with an x offset, with a
\* y offset.
EntityRects == {Rect(0, 0, 4, 6), Rect(2, 0, 4, 6), Rect(0, 3, 4, 6)}

\* (sc, ac) as constructed, and in mid-cycle.
EntityCursors == {<<1, 0>>, <<2, 3>>}

EntityWidths == {4, 8}

EntityHeights == {6, 10}

EntityInit ==
    /\ \E p \in EntityPoints, cr \in EntityRects, d \in Direction, l \in Direction,
          c \in EntityCursors :
         me = [Player_new(p, cr, TRUE, d, AirborneLongerLen, GameFrames, TRUE)
                 EXCEPT !.l_dir = l, !.anim.sc = c[1], !.anim.ac = c[2]]
    /\ camera = GameCamera
    /\ current_map = GameMap
    /\ running = TRUE
    /\ pc = "api"
    /\ op = NoOp
    /\ hist = NoHist

\* player.jump()
Jump ==
    /\ pc = "api"
    /\ me' = jump(me)
    /\ op' = [NoOp EXCEPT !.name = "jump"]
    /\ hist' = [hist EXCEPT !.pre = me,
                            !.jumped_from = IF me.dir \in Airborne THEN @ ELSE me.dir]
    /\ UNCHANGED <<camera, current_map, running, pc>>

\* me.change_dir(d)
ChangeDir ==
    /\ pc = "api"
    /\ \E d \in Direction :
         /\ me' = change_dir(me, d)
         /\ op' = [NoOp EXCEPT !.name = "change_dir", !.arg = d]
    /\ hist' = [hist EXCEPT !.pre = me,
                            !.jumped_from = IF me.dir \in Airborne THEN @ ELSE "-"]
    /\ UNCHANGED <<camera, current_map, running, pc>>

\* me.keep_on_screen(w, h)
KeepOnScreen ==
    /\ pc = "api"
    /\ \E w \in EntityWidths, h \in EntityHeights :
         /\ me' = keep_on_screen(me, w, h)
         /\ op' = [NoOp EXCEPT !.name = "keep_on_screen", !.w = w, !.h = h]
    /\ hist' = [hist EXCEPT !.pre = me,
                            !.jumped_from = IF me.dir \in Airborne THEN @ ELSE "-"]
    /\ UNCHANGED <<camera, current_map, running, pc>>

EntityNext == Jump \/ ChangeDir \/ KeepOnScreen

SpecEntity == EntityInit /\ [][EntityNext]_vars

-----------------------------------------------------------------------------
(* The animation step alone, for tables whose frame count divides the      *)
(* cycle length                                                            *)

\* Bound of the model: the longest cycle length.
MaxAnimLen == 8

\* (cycle length, frame count) with the frame count dividing the cycle length.
DividingTables ==
    {t \in (1..MaxAnimLen) \X (1..MaxAnimLen) : t[1] % t[2] = 0}

AnimInit ==
    /\ \E t \in DividingTables, d \in TableDirs, vx \in {0, 3 * FP} :
         me = [Player_new(Point(0, 0), MainRect, TRUE, d,
                          [e \in TableDirs |-> t[1]], [e \in TableDirs |-> t[2]], TRUE)
                 EXCEPT !.v.x = vx]
    /\ camera = GameCamera
    /\ current_map = GameMap
    /\ running = TRUE
    /\ pc = "api"
    /\ op = NoOp
    /\ hist = NoHist

\* me.update(), with the history of the frame advances in the current direction.
Animate ==
    /\ pc = "api"
    /\ ~MoveableEntity_update_panics(me)
    /\ me' = MoveableEntity_update(me)
    /\ op' = [NoOp EXCEPT !.name = "update"]
    /\ LET turned == still_if_stopped(me).dir # me.dir
           gap    == IF turned THEN 0 ELSE hist.gap
           from   == IF turned THEN -1 ELSE hist.from
       IN  hist' = IF AdvancesFrame(me)
                   THEN [hist EXCEPT !.gap = 0,
                                     !.last_gap = IF from = -1 THEN 0 ELSE gap + 1,
                                     !.from = still_if_stopped(me).anim.sc,
                                     !.anim_dir = me'.dir]
                   ELSE [hist EXCEPT !.gap = gap + 1, !.from = from,
                                     !.last_gap = IF turned THEN 0 ELSE @,
                                     !.anim_dir = me'.dir]
    /\ UNCHANGED <<camera, current_map, running, pc>>

AnimNext == Animate

SpecAnim == AnimInit /\ [][AnimNext]_vars

-----------------------------------------------------------------------------
(* update_camera alone, from any camera and player position                *)

\* main.rs's camera (980 x 700, dead zone 100,100,780,500); a 200 x 200
\* camera with a centred dead zone; a camera whose dead zone has no offset.
CameraShapes ==
    {[width |-> 980, height |-> 700, collision_rect |-> Rect(100, 100, 780, 500)],
     [width |-> 200, height |-> 200, collision_rect |-> Rect(50, 50, 100, 100)],
     [width |-> 200, height |-> 200, collision_rect |-> Rect(0, 0, 200, 200)]}

CameraCoords == {-300, 0, 100, 800, 2000}

PlayerCoords == {-500, -1, 0, 60, 150, 400, 990, 5000}

\* A map of 1000 x 1000 pixels.
CameraMap == [width |-> 20, height |-> 20, tile_width |-> 50, tile_height |-> 50]

\* A map of 150 x 1000 pixels: narrower than every camera above.
NarrowMap == [width |-> 3, height |-> 20, tile_width |-> 50, tile_height |-> 50]

CameraInit ==
    /\ \E sh \in CameraShapes, cx \in CameraCoords, cy \in CameraCoords :
         camera = Camera_new(Point(cx, cy), sh.width, sh.height, sh.collision_rect)
    /\ \E px \in PlayerCoords, py \in PlayerCoords, cr \in {MainRect, Rect(0, 5, 32, 60)} :
         me = Player_new(Point(px, py), cr, TRUE, "Right", UniformLen, GameFrames, TRUE)
    /\ current_map \in {CameraMap, NarrowMap}
    /\ running = TRUE
    /\ pc = "api"
    /\ op = NoOp
    /\ hist = NoHist

\* game.update_camera()
UpdateCamera ==
    /\ pc = "api"
    /\ camera' = update_camera(camera, me, current_map)
    /\ op' = [NoOp EXCEPT !.name = "update_camera"]
    /\ hist' = [hist EXCEPT !.follow = Point(camera_follow_x(camera, me),
                                             camera_follow_y(camera, me)),
                            !.pre = camera]
    /\ UNCHANGED <<me, current_map, running, pc>>

CameraNext == UpdateCamera

SpecCamera == CameraInit /\ [][CameraNext]_vars

-----------------------------------------------------------------------------
(* map.rs: Tileset                                                         *)

\* Option<Rect>: None, Some(rect).
None == [some |-> FALSE, rect |-> Rect(0, 0, 0, 0)]

Some(r) == [some |-> TRUE, rect |-> r]

\* `(n as f64).sqrt() as u32`: the largest k with k * k <= n.
Isqrt(n) == CHOOSE k \in 0..n : k * k <= n /\ (k + 1) * (k + 1) > n

side_len(ts) == Isqrt(ts.tile_count)

row_for_id(ts, id) == id \div side_len(ts)

col_for_id(ts, id) == id % side_len(ts)

\* The divisions of row_for_id and col_for_id panic when side_len is 0.
tile_for_id_panics(ts, id) == id # 0 /\ side_len(ts) = 0

\* A faulty variant of tile_for_id: `id -= 1` forgotten.
tile_for_id_one_based(ts, id) ==
    IF id = 0 THEN None
    ELSE LET row == row_for_id(ts, id)
             col == col_for_id(ts, id)
             x   == ts.margin + col * (ts.tile_width + ts.spacing)
             y   == ts.margin + row * (ts.tile_height + ts.spacing)
         IN  Some(Rect(x, y, ts.tile_width, ts.tile_height))

tile_for_id(ts, id) ==
    IF id = 0 THEN None
    ELSE LET id1 == id - 1
             row == row_for_id(ts, id1)
             col == col_for_id(ts, id1)
             x   == ts.margin + col * (ts.tile_width + ts.spacing)
             y   == ts.margin + row * (ts.tile_height + ts.spacing)
         IN  Some(Rect(x, y, ts.tile_width, ts.tile_height))

\* Bound of the model: the largest tile ID looked up.
MaxTileId == 12

\* Tilesets: tile counts around the squares 0, 1, 4, 9, 16 and 100; with and
\* without margin and spacing; square and oblong tiles.
TileCounts == {0, 1, 2, 3, 4, 5, 8, 9, 10, 15, 16, 17, 100}

Tilesets ==
    {[tile_count |-> n, margin |-> mg, spacing |-> sp, tile_width |-> sz[1],
      tile_height |-> sz[2]] :
        n \in TileCounts, mg \in {0, 1}, sp \in {0, 2}, sz \in {<<16, 16>>, <<4, 6>>}}

TilesetInit ==
    /\ \E ts \in Tilesets : hist = [ts |-> ts, id |-> 0, ret |-> None]
    /\ me = Player_new(Point(0, 0), MainRect, TRUE, "Right", UniformLen, GameFrames, TRUE)
    /\ camera = GameCamera
    /\ current_map = GameMap
    /\ running = TRUE
    /\ pc = "api"
    /\ op = NoOp

\* ts.tile_for_id(id)
TileForId ==
    /\ pc = "api"
    /\ \E id \in 0..MaxTileId :
         /\ pc' = IF tile_for_id_panics(hist.ts, id) THEN "panic" ELSE "api"
         /\ hist' = [hist EXCEPT !.id = id,
                       !.ret = IF tile_for_id_panics(hist.ts, id) THEN None
                               ELSE tile_for_id(hist.ts, id)]
    /\ op' = [NoOp EXCEPT !.name = "tile_for_id"]
    /\ UNCHANGED <<me, camera, current_map, running>>

TilesetNext == TileForId

SpecTileset == TilesetInit /\ [][TilesetNext]_vars

-----------------------------------------------------------------------------
(* map.rs: Map                                                             *)

\* Map::new_from_tiled_map: the dimensions of the tiled map, no tiles yet.
new_from_tiled_map(tmap) ==
    [width |-> tmap.width, height |-> tmap.height, tile_width |-> tmap.tilewidth,
     tile_height |-> tmap.tileheight, tiles |-> <<>>]

\* The cell (i, j) reads data[i * width + j]; sequences are 1-based.
data_index(map, i, j) == i * map.width + j + 1

\* Indexing past the end of data panics, and so does tile_for_id.
insert_data_panics(map, data, ts) ==
    \E i \in 0..(map.height - 1), j \in 0..(map.width - 1) :
        \/ data_index(map, i, j) > Len(data)
        \/ tile_for_id_panics(ts, data[data_index(map, i, j)])

\* A faulty variant of insert_data_using_tilset: the rows filled in from the
\* columns' side (data read column by column).
insert_data_column_major(map, data, ts) ==
    LET n == Len(map.tiles)
        new_row(i) == [j \in 1..map.width |->
                          tile_for_id(ts, data[(j - 1) * map.height + i + 1])]
    IN  [map EXCEPT !.tiles =
            [k \in 1..(n + map.height) |->
                (IF k <= n THEN map.tiles[k] ELSE <<>>)
                \o (IF k <= map.height THEN new_row(k - 1) ELSE <<>>)]]

\* Iteration i pushes an empty row at the end of tiles and then pushes width
\* tiles onto tiles[i]: on a map without tiles these are the same row.
insert_data_using_tilset(map, data, ts) ==
    LET n == Len(map.tiles)
        new_row(i) == [j \in 1..map.width |->
                          tile_for_id(ts, data[data_index(map, i, j - 1)])]
    IN  [map EXCEPT !.tiles =
            [k \in 1..(n + map.height) |->
                (IF k <= n THEN map.tiles[k] ELSE <<>>)
                \o (IF k <= map.height THEN new_row(k - 1) ELSE <<>>)]]

\* Whether Map::draw skips the tile at (i, j): an empty tile, or a tile
\* outside the camera on the x axis or on the y axis.
draw_skips(map, c, i, j) ==
    LET x == j * map.tile_width
        y == i * map.tile_height
    IN  \/ ~map.tiles[i + 1][j + 1].some
        \/ x + map.tile_width < c.pos.x
        \/ x > c.pos.x + c.width
        \/ y + map.tile_height < c.pos.y
        \/ y > c.pos.y + c.height

\* The r.copy call for the tile at (i, j): source and destination rect.
draw_copy(map, c, i, j) ==
    [row |-> i, col |-> j, src |-> map.tiles[i + 1][j + 1].rect,
     dst |-> Rect(j * map.tile_width - c.pos.x, i * map.tile_height - c.pos.y,
                  map.tile_width, map.tile_height)]

\* A faulty variant of draw_row: tiles that only touch the camera's edge culled.
draw_row_strict(map, c, i) ==
    LET all == [k \in 1..Len(map.tiles[i + 1]) |-> k - 1]
        kept == SelectSeq(all, LAMBDA j :
                    /\ ~draw_skips(map, c, i, j)
                    /\ j * map.tile_width + map.tile_width > c.pos.x
                    /\ j * map.tile_width < c.pos.x + c.width)
    IN  [k \in 1..Len(kept) |-> draw_copy(map, c, i, kept[k])]

\* The r.copy calls of row i, in order.
draw_row(map, c, i) ==
    LET all == [k \in 1..Len(map.tiles[i + 1]) |-> k - 1]
        kept == SelectSeq(all, LAMBDA j : ~draw_skips(map, c, i, j))
    IN  [k \in 1..Len(kept) |-> draw_copy(map, c, i, kept[k])]

\* The r.copy calls of Map::draw from row i on, in order.
RECURSIVE draw_from(_, _, _)
draw_from(map, c, i) ==
    IF i >= Len(map.tiles) THEN <<>>
    ELSE draw_row(map, c, i) \o draw_from(map, c, i + 1)

Map_draw(map, c) == draw_from(map, c, 0)

\* Bound of the model: the calls of insert_data_using_tilset on one map.
MaxInserts == 1

\* Tiled maps of 1 x 1, 2 x 2 and 3 x 2 tiles of 4 x 6 pixels.
MapShapes ==
    {[width |-> s[1], height |-> s[2], tilewidth |-> 4, tileheight |-> 6] :
        s \in {<<1, 1>>, <<2, 2>>, <<3, 2>>}}

MapTilesets ==
    {[tile_count |-> 4, margin |-> 0, spacing |-> 0, tile_width |-> 4, tile_height |-> 6],
     [tile_count |-> 9, margin |-> 1, spacing |-> 2, tile_width |-> 4, tile_height |-> 6]}

\* The byte slices passed as data; the second is the inflated stream of a
\* 2 x 2 layer of little-endian 32-bit tile IDs 1, 2, 0, 3.
MapData ==
    {<<>>,
     <<1, 0, 0, 0, 2, 0, 0, 0, 0, 0, 0, 0, 3, 0, 0, 0>>,
     <<1, 2, 0, 3>>,
     <<0, 0, 0, 0, 0, 0>>,
     <<1, 2, 3, 4, 5, 6>>,
     <<3, 0, 1, 0, 2>>,
     <<2>>,
     <<0>>}

\* Cameras of 6 x 6 pixels on, at the edges of and beyond the map.
MapCameraXs == {-7, -6, 0, 4, 5, 12, 13}

MapCameraYs == {-7, -6, 0, 6, 7, 12, 13}

MapHist(ts) == [ts |-> ts, data |-> <<>>, inserts |-> 0, calls |-> <<>>, pre |-> <<>>]

MapInit ==
    /\ \E sh \in MapShapes : current_map = new_from_tiled_map(sh)
    /\ \E ts \in MapTilesets : hist = MapHist(ts)
    /\ \E cx \in MapCameraXs, cy \in MapCameraYs :
         camera = Camera_new(Point(cx, cy), 6, 6, Rect(1, 1, 4, 4))
    /\ me = Player_new(Point(0, 0), MainRect, TRUE, "Right", UniformLen, GameFrames, TRUE)
    /\ running = TRUE
    /\ pc = "api"
    /\ op = NoOp

\* map.insert_data_using_tilset(data, ts)
InsertData ==
    /\ pc = "api"
    /\ hist.inserts < MaxInserts
    /\ \E data \in MapData :
         /\ op' = [NoOp EXCEPT !.name = "insert_data"]
         /\ hist' = [hist EXCEPT !.data = data, !.inserts = @ + 1, !.calls = <<>>,
                                 !.pre = current_map.tiles]
         /\ IF insert_data_panics(current_map, data, hist.ts)
            THEN pc' = "panic" /\ UNCHANGED current_map
            ELSE /\ pc' = "api"
                 /\ current_map' = insert_data_using_tilset(current_map, data, hist.ts)
    /\ UNCHANGED <<me, camera, running>>

\* map.draw(r, c)
DrawMap ==
    /\ pc = "api"
    /\ op' = [NoOp EXCEPT !.name = "draw"]
    /\ hist' = [hist EXCEPT !.calls = Map_draw(current_map, camera)]
    /\ UNCHANGED <<me, camera, current_map, running, pc>>

MapNext == InsertData \/ DrawMap

SpecMap == MapInit /\ [][MapNext]_vars

-----------------------------------------------------------------------------
(* tiled.rs: Map::data                                                     *)

\* A layer's data string stands for what the libraries make of it: whether
\* from_base64 accepts it, and for the bytes it decodes to, whether the
\* ZlibDecoder reads them to the end and what they inflate to.
from_base64(str) == [ok |-> str.base64_ok, val |-> str.decoded]

read_to_end(zlib) == [ok |-> zlib.inflate_ok, val |-> zlib.inflated]

\* Result<Vec<u8>, DataError>
Ok(bytes) == [ok |-> TRUE, err |-> "-", bytes |-> bytes]

Err(e) == [ok |-> FALSE, err |-> e, bytes |-> <<>>]

\* A faulty variant of tiled_Map_data: the two early returns' errors swapped.
tiled_Map_data_swapped(tmap, layer) ==
    IF layer + 1 \notin DOMAIN tmap.layers THEN Err("NoDataError")
    ELSE IF ~tmap.layers[layer + 1].data.some THEN Err("NoLayerError")
    ELSE LET data == from_base64(tmap.layers[layer + 1].data.str)
         IN  IF ~data.ok THEN Err("Base64Error")
             ELSE LET decoded_data == read_to_end(data.val)
                  IN  IF ~decoded_data.ok THEN Err("IoError")
                      ELSE Ok(decoded_data.val)

\* tiled::Map::data(layer); layer is 0-based, sequences are 1-based.
tiled_Map_data(tmap, layer) ==
    IF layer + 1 \notin DOMAIN tmap.layers THEN Err("NoLayerError")
    ELSE IF ~tmap.layers[layer + 1].data.some THEN Err("NoDataError")
    ELSE LET data == from_base64(tmap.layers[layer + 1].data.str)
         IN  IF ~data.ok THEN Err("Base64Error")
             ELSE LET decoded_data == read_to_end(data.val)
                  IN  IF ~decoded_data.ok THEN Err("IoError")
                      ELSE Ok(decoded_data.val)

\* Bound of the model: the layers of a tiled map.
MaxLayers == 2

NoStr == [base64_ok |-> FALSE, decoded |-> [inflate_ok |-> FALSE, inflated |-> <<>>]]

\* Strings that are not base64, that decode to bytes that do not inflate, and
\* that decode and inflate to a byte stream.
LayerStrings ==
    {NoStr, [NoStr EXCEPT !.base64_ok = TRUE]}
    \cup {[base64_ok |-> TRUE, decoded |-> [inflate_ok |-> TRUE, inflated |-> b]] :
            b \in {<<>>, <<1, 2, 0, 3>>, <<1, 0, 0, 0, 2, 0, 0, 0, 0, 0, 0, 0, 3, 0, 0, 0>>}}

\* Layer.data: Option<String>
LayerData == {[some |-> FALSE, str |-> NoStr]} \cup {[some |-> TRUE, str |-> s] : s \in LayerStrings}

Layers == {[data |-> d, width |-> 2, height |-> 2] : d \in LayerData}

TiledMaps ==
    {[layers |-> ls, width |-> 2, height |-> 2, tilewidth |-> 4, tileheight |-> 6] :
        ls \in UNION {[1..n -> Layers] : n \in 0..MaxLayers}}

LayerInit ==
    /\ \E tmap \in TiledMaps : hist = [tmap |-> tmap, layer |-> 0, ret |-> Ok(<<>>)]
    /\ current_map = GameMap
    /\ camera = GameCamera
    /\ me = Player_new(Point(0, 0), MainRect, TRUE, "Right", UniformLen, GameFrames, TRUE)
    /\ running = TRUE
    /\ pc = "api"
    /\ op = NoOp

\* tmap.data(layer)
LayerDataCall ==
    /\ pc = "api"
    /\ \E layer \in 0..MaxLayers :
         hist' = [hist EXCEPT !.layer = layer, !.ret = tiled_Map_data(hist.tmap, layer)]
    /\ op' = [NoOp EXCEPT !.name = "data"]
    /\ UNCHANGED <<me, camera, current_map, running, pc>>

LayerNext == LayerDataCall

SpecLayer == LayerInit /\ [][LayerNext]_vars

-----------------------------------------------------------------------------
(* Player::update alone, from any velocity and acceleration                *)

\* Bound of the model: the updates of one run.
MaxUpdates == 3

\* In units of 1 / FP: at rest, below, at and above the values that decay to
\* the cutoffs, and the jump impulse.
PhysicsVXs == {-20 * FP, -10 * FP, -5 * FP, 0, 5 * FP, 10 * FP, 1050, 30 * FP}

PhysicsVYs == {-55 * FP, -9 * FP, 0, 2 * FP}

PhysicsAXs == {-950, -13, 0, 12, 13, 950}

PhysicsInit ==
    /\ \E vx \in PhysicsVXs, vy \in PhysicsVYs, ax \in PhysicsAXs,
          d \in {"Right", "Left", "Up"}, dr \in BOOLEAN :
         me = [Player_new(Point(0, 0), MainRect, dr, d, UniformLen, GameFrames, TRUE)
                 EXCEPT !.v = [x |-> vx, y |-> vy], !.a.x = ax]
    /\ hist = [pre |-> Player_new(Point(0, 0), MainRect, TRUE, "Right", UniformLen,
                                  GameFrames, TRUE),
               n |-> 0]
    /\ camera = GameCamera
    /\ current_map = GameMap
    /\ running = TRUE
    /\ pc = "api"
    /\ op = NoOp

\* player.update()
PlayerUpdate ==
    /\ pc = "api"
    /\ hist.n < MaxUpdates
    /\ ~Player_update_panics(me)
    /\ me' = Player_update(me)
    /\ hist' = [pre |-> me, n |-> hist.n + 1]
    /\ op' = [NoOp EXCEPT !.name = "player_update"]
    /\ UNCHANGED <<camera, current_map, running, pc>>

PhysicsNext == PlayerUpdate

SpecPhysics == PhysicsInit /\ [][PhysicsNext]_vars

-----------------------------------------------------------------------------
(* The game with the loop going on: no Quit or Escape arrives, and main's  *)
(* `while sys.game.running` takes its next iteration unless a tick panicked *)

\* The fps System is constructed with (main.rs: FPS = 30): its frame counter
\* fc runs through 0..fps.
LiveFps == 1

\* The players: main.rs's, and players constructed Down and Up.
LiveSetups ==
    {[d |-> d, dr |-> TRUE, len |-> UniformLen] : d \in {"Right", "Down", "Up"}}

\* History.  keys, over: as in the game above.  landed: whether the last
\* tick's keep_on_screen landed the player.  fc: System's frame counter.
LiveHist == [keys |-> 0, over |-> FALSE, landed |-> FALSE, fc |-> 0]

\* self.fc += 1; if self.fc > self.fps { self.fc = 0 }
System_update_fc(fc, fps) == IF fc + 1 > fps THEN 0 ELSE fc + 1

LiveEventSeqs == UNION {[1..n -> {"Space"}] : n \in 0..MaxEvents}

LiveInit ==
    /\ \E s \in LiveSetups :
         me = Player_new(Point(0, 0), MainRect, s.dr, s.d, s.len, GameFrames, TRUE)
    /\ camera = GameCamera
    /\ current_map = GameMap
    /\ running = TRUE
    /\ pc = "loop"
    /\ op = NoOp
    /\ hist = LiveHist

\* One iteration of main's loop, as Frame: System::update (the frame counter,
\* the events, the keys, Game::update, keep_on_screen) and the draw.
LiveFrame ==
    /\ pc = "loop"
    /\ running
    /\ \E evs \in LiveEventSeqs, key \in Keys :
         /\ key # "None" => hist.keys < MaxKeyTicks /\ ~hist.over
         /\ \E m0 \in {before_game_update(me, evs, key)} :
            \E p \in {Player_update(m0)} :
            \E m1 \in {keep_on_screen(p, pixel_width(current_map), pixel_height(current_map))} :
              /\ op' = [NoOp EXCEPT !.name = "frame"]
              /\ running' = IF quit_seen(evs) THEN FALSE ELSE running
              /\ IF Player_update_panics(m0)
                 THEN /\ pc' = "panic" /\ me' = m0 /\ UNCHANGED <<camera, hist>>
                 ELSE /\ pc' \in draw_outcomes(m1, "loop")
                      /\ me' = m1
                      /\ camera' = update_camera(camera, p, current_map)
                      /\ hist' = [keys |-> hist.keys + (IF key = "None" THEN 0 ELSE 1),
                                  over |-> hist.over \/ (key = "None" /\ hist.keys > 0),
                                  landed |-> LandsOn(keep_on_screen_x(p, pixel_width(current_map)),
                                                     pixel_height(current_map)),
                                  fc |-> System_update_fc(hist.fc, LiveFps)]
    /\ UNCHANGED current_map

LiveNext == LiveFrame

SpecLive == LiveInit /\ [][LiveNext]_vars /\ WF_vars(LiveFrame)

-----------------------------------------------------------------------------
(* Properties                                                              *)

\* C1 (Spec): for a player constructed with any direction other than Landed,
\* the current direction is never Landed, so that no lookup of the current
\* direction in the animation tables fails (the program never panics).
C1_DirNeverLanded == me.dir # "Landed" /\ pc # "panic"

\* C2 (Spec): between two landings at most two jump() calls take effect; the
\* direction leaves {Up, DoubleUp} only through a landing; and a landing
\* restores the budget: right after it the direction is not airborne, so the
\* next two jump() calls take effect.
C2_JumpBudget ==
    [][/\ hist'.jumps <= 2
       /\ (me.dir \in Airborne /\ me'.dir \notin Airborne) => hist'.landed
       /\ hist'.landed => me'.dir \notin Airborne]_vars

\* C3 (SpecEntity): jump() from DoubleUp changes nothing; from Up it makes the
\* direction DoubleUp, keeps last-direction and sets velocity.y to -55; from
\* every other direction d it makes the direction Up and last-direction d and
\* sets velocity.y to -55.  Nothing else of the entity changes.
C3_JumpTotal ==
    op.name = "jump" =>
        LET q == hist.pre
        IN  CASE q.dir = "DoubleUp" -> me = q
              [] q.dir = "Up" -> me = [q EXCEPT !.dir = "DoubleUp", !.v.y = -55 * FP]
              [] OTHER -> me = [q EXCEPT !.dir = "Up", !.l_dir = q.dir, !.v.y = -55 * FP]

\* A first jump from StillLeft has acted.
C3_Witness ==
    /\ op.name = "jump"
    /\ hist.pre.dir = "StillLeft"
    /\ hist.pre.v.y = 0
    /\ me.dir = "Up"
    /\ me.l_dir = "StillLeft"
    /\ me.v.y = -55 * FP

\* C4 (SpecEntity): for every current direction c and last-direction l,
\* change_dir(Landed) gives current = l and last = Landed, also when c is Up
\* or DoubleUp.
C4_LandedResolves ==
    (op.name = "change_dir" /\ op.arg = "Landed") =>
        /\ me.dir = hist.pre.l_dir
        /\ me.l_dir = "Landed"

\* change_dir(Landed) has acted on current = Up, last = Right.
C4_Witness ==
    /\ op.name = "change_dir"
    /\ op.arg = "Landed"
    /\ hist.pre.dir = "Up"
    /\ hist.pre.l_dir = "Right"
    /\ me.dir = "Right"
    /\ me.l_dir = "Landed"

\* C5 (SpecEntity): while the current direction is Up or DoubleUp,
\* change_dir(d) with d other than Landed leaves the direction, the
\* last-direction and the animation cursors (the whole entity) as they were.
C5_AirborneLock ==
    (op.name = "change_dir" /\ op.arg # "Landed" /\ hist.pre.dir \in Airborne) =>
        me = hist.pre

\* change_dir(StillLeft), which would reset the cursors, has been ignored by
\* an entity in DoubleUp whose cursors are in mid-cycle.
C5_Witness ==
    /\ op.name = "change_dir"
    /\ op.arg = "StillLeft"
    /\ hist.pre.dir = "DoubleUp"
    /\ me.dir = "DoubleUp"
    /\ me.anim.sc = 2
    /\ me.anim.ac = 3

\* C6 (SpecCamera): for a map at least as large as the viewport, after
\* update_camera the camera position is within
\* [0, pixel_width - width] x [0, pixel_height - height].
C6_CameraInMap ==
    (/\ op.name = "update_camera"
     /\ pixel_width(current_map) >= camera.width
     /\ pixel_height(current_map) >= camera.height) =>
        /\ 0 <= camera.pos.x
        /\ camera.pos.x <= pixel_width(current_map) - camera.width
        /\ 0 <= camera.pos.y
        /\ camera.pos.y <= pixel_height(current_map) - camera.height

\* update_camera has acted with the player far left of the map and far below
\* it: the camera is clamped at 0 and at pixel_height - height.
C6_Witness ==
    /\ op.name = "update_camera"
    /\ me.pos.x = -500
    /\ me.pos.y = 5000
    /\ camera.pos.x = 0
    /\ camera.pos.y = pixel_height(current_map) - camera.height

\* C7 (SpecCamera): when the player's collision rect extends past an edge of
\* the dead zone, the camera position update_camera computes before clamping
\* it to the map puts the corresponding dead-zone edge on the player's edge,
\* on the x axis and on the y axis.
C7_FollowsOverflow ==
    op.name = "update_camera" =>
        LET c  == hist.pre
            dz == c.collision_rect
            f  == hist.follow
            player_left   == me.pos.x + me.collision_rect.x
            player_right  == player_left + me.collision_rect.w
            player_top    == me.pos.y + me.collision_rect.y
            player_bottom == player_top + me.collision_rect.h
        IN  /\ player_right > c.pos.x + dz.x + dz.w => f.x + dz.x + dz.w = player_right
            /\ (player_right <= c.pos.x + dz.x + dz.w /\ player_left < c.pos.x + dz.x)
                 => f.x + dz.x = player_left
            /\ player_bottom > c.pos.y + dz.y + dz.h => f.y + dz.y + dz.h = player_bottom
            /\ (player_bottom <= c.pos.y + dz.y + dz.h /\ player_top < c.pos.y + dz.y)
                 => f.y + dz.y = player_top

\* C8 (SpecEntity): after keep_on_screen(w, h) on an entity whose collision
\* rect fits in w x h, the collision rect in world coordinates lies within
\* [0, w] x [0, h], for every offset of the rect.
C8_RectOnScreen ==
    (/\ op.name = "keep_on_screen"
     /\ me.collision_rect.w <= op.w
     /\ me.collision_rect.h <= op.h) =>
        /\ 0 <= me.pos.x + me.collision_rect.x
        /\ me.pos.x + me.collision_rect.x + me.collision_rect.w <= op.w
        /\ 0 <= me.pos.y + me.collision_rect.y
        /\ me.pos.y + me.collision_rect.y + me.collision_rect.h <= op.h

\* C9 (SpecAnim): with the frame count dividing the cycle length, in a fixed
\* direction the frame cursor advances exactly once every
\* step = cycle length / frame count updates (never later than step updates
\* after the last advance, and two advances are step updates apart), also
\* across the tick cursor's wrap, and each advance takes it to the cyclic
\* successor of the frame before.
C9_FrameCadence ==
    op.name = "update" =>
        LET frames == me.anim.dir_to_frames[me.dir]
            step   == me.anim.dir_to_anim_len[me.dir] \div frames
        IN  /\ hist.gap < step
            /\ hist.last_gap # 0 => hist.last_gap = step
            /\ (hist.gap = 0 /\ hist.from # -1) => me.anim.sc = (hist.from + 1) % frames

\* With 4 frames in a cycle of 8 the tick cursor has just wrapped from 8 to 1,
\* on an update that advanced the frame 2 updates after the advance before.
C9_Witness ==
    /\ op.name = "update"
    /\ me.anim.dir_to_anim_len[me.dir] = 8
    /\ me.anim.dir_to_frames[me.dir] = 4
    /\ me.anim.ac = 1
    /\ hist.gap = 0
    /\ hist.last_gap = 2

C11_TileRect ==
    op.name = "tile_for_id" =>
        /\ pc # "panic"
        /\ hist.ret.some <=> hist.id # 0
        /\ hist.id >= 1 =>
             \E side \in 0..hist.ts.tile_count :
                /\ side * side <= hist.ts.tile_count
                /\ (side + 1) * (side + 1) > hist.ts.tile_count
                /\ side > 0
                /\ hist.ret.rect.x = hist.ts.margin
                      + ((hist.id - 1) % side) * (hist.ts.tile_width + hist.ts.spacing)
                /\ hist.ret.rect.y = hist.ts.margin
                      + ((hist.id - 1) \div side) * (hist.ts.tile_height + hist.ts.spacing)
                /\ hist.ret.rect.w = hist.ts.tile_width
                /\ hist.ret.rect.h = hist.ts.tile_height

\* C11 (SpecTileset), amended: the same for every tileset of at least one
\* tile (tile_count >= 1, so that side >= 1).
C11_TileRectNonEmpty ==
    (op.name = "tile_for_id" /\ hist.ts.tile_count >= 1) =>
        /\ pc # "panic"
        /\ hist.ret.some <=> hist.id # 0
        /\ hist.id >= 1 =>
             \E side \in 1..hist.ts.tile_count :
                /\ side * side <= hist.ts.tile_count
                /\ (side + 1) * (side + 1) > hist.ts.tile_count
                /\ hist.ret.rect.x = hist.ts.margin
                      + ((hist.id - 1) % side) * (hist.ts.tile_width + hist.ts.spacing)
                /\ hist.ret.rect.y = hist.ts.margin
                      + ((hist.id - 1) \div side) * (hist.ts.tile_height + hist.ts.spacing)
                /\ hist.ret.rect.w = hist.ts.tile_width
                /\ hist.ret.rect.h = hist.ts.tile_height

\* tile_for_id(12) on a tileset of 100 tiles of 16 x 16 pixels without margin
\* and spacing has returned (16, 16, 16, 16).
C11_Witness ==
    /\ op.name = "tile_for_id"
    /\ hist.ts = [tile_count |-> 100, margin |-> 0, spacing |-> 0, tile_width |-> 16,
                  tile_height |-> 16]
    /\ hist.id = 12
    /\ hist.ret = Some(Rect(16, 16, 16, 16))

\* C12 (SpecMap): the tile IDs of the map cells are taken from every 4th byte
\* (offsets 0, 4, 8, ...) of the inflated stream of little-endian 32-bit IDs,
\* in row-major order: the cell (row, col) is built from the byte at offset
\* 4 * (row * width + col), so that the 16 bytes of the 2 x 2 layer 1, 2, 0, 3
\* give the cells the IDs 1, 2, 0, 3.
C12_EveryFourthByte ==
    (/\ op.name = "insert_data"
     /\ hist.pre = <<>>
     /\ Len(hist.data) >= 4 * current_map.width * current_map.height) =>
        /\ pc # "panic"
        /\ \A i \in 0..(current_map.height - 1), j \in 0..(current_map.width - 1) :
              current_map.tiles[i + 1][j + 1]
                = tile_for_id(hist.ts, hist.data[4 * (i * current_map.width + j) + 1])

\* C13 (SpecMap): building a map (new_from_tiled_map, then
\* insert_data_using_tilset) from data of at least width * height tile IDs
\* gives exactly height rows of exactly width tiles, the tile at (row, col)
\* has the source rect tile_for_id(data[row * width + col]) and has none
\* exactly when that ID is 0; pixel_width() and pixel_height() are
\* width * tile_width and height * tile_height.
C13_GridFromData ==
    (/\ op.name = "insert_data"
     /\ hist.pre = <<>>
     /\ Len(hist.data) >= current_map.width * current_map.height) =>
        /\ pc # "panic"
        /\ Len(current_map.tiles) = current_map.height
        /\ \A i \in 1..current_map.height :
              /\ Len(current_map.tiles[i]) = current_map.width
              /\ \A j \in 1..current_map.width :
                    LET id == hist.data[(i - 1) * current_map.width + (j - 1) + 1]
                    IN  /\ current_map.tiles[i][j] = tile_for_id(hist.ts, id)
                        /\ ~current_map.tiles[i][j].some <=> id = 0
        /\ pixel_width(current_map) = current_map.width * current_map.tile_width
        /\ pixel_height(current_map) = current_map.height * current_map.tile_height

\* A 3 x 2 map has been built from the IDs 1, 2, 3, 4, 5, 6: the tile at
\* (1, 0) is that of ID 4, the first of the tileset's second row.
C13_Witness ==
    /\ op.name = "insert_data"
    /\ pc = "api"
    /\ hist.pre = <<>>
    /\ hist.data = <<1, 2, 3, 4, 5, 6>>
    /\ hist.ts.tile_count = 9
    /\ current_map.width = 3
    /\ Len(current_map.tiles) = 2
    /\ current_map.tiles[2][1] = Some(Rect(1, 9, 4, 6))
    /\ pixel_width(current_map) = 12

\* C14 (SpecMap): in Map::draw, for every camera position and every cell of
\* the grid: a cell whose pixel rect lies fully outside
\* [camera.x, camera.x + width] on the x axis or fully outside
\* [camera.y, camera.y + height] on the y axis is never submitted; a non-empty
\* cell that overlaps the camera rectangle on both axes is submitted exactly
\* once, at destination (col * tile_w - camera.x, row * tile_h - camera.y);
\* an empty cell is never submitted.
C14_Culling ==
    op.name = "draw" =>
        \A i \in 0..(Len(current_map.tiles) - 1) :
            \A j \in 0..(Len(current_map.tiles[i + 1]) - 1) :
                LET x == j * current_map.tile_width
                    y == i * current_map.tile_height
                    outside_x == x + current_map.tile_width < camera.pos.x
                                 \/ x > camera.pos.x + camera.width
                    outside_y == y + current_map.tile_height < camera.pos.y
                                 \/ y > camera.pos.y + camera.height
                    overlaps_x == x <= camera.pos.x + camera.width
                                  /\ camera.pos.x <= x + current_map.tile_width
                    overlaps_y == y <= camera.pos.y + camera.height
                                  /\ camera.pos.y <= y + current_map.tile_height
                    empty == ~current_map.tiles[i + 1][j + 1].some
                    mine == {k \in 1..Len(hist.calls) :
                                hist.calls[k].row = i /\ hist.calls[k].col = j}
                IN  /\ (outside_x \/ outside_y \/ empty) => mine = {}
                    /\ (~empty /\ overlaps_x /\ overlaps_y) =>
                          /\ Cardinality(mine) = 1
                          /\ \A k \in mine :
                                /\ hist.calls[k].dst.x = x - camera.pos.x
                                /\ hist.calls[k].dst.y = y - camera.pos.y
                                /\ hist.calls[k].src = current_map.tiles[i + 1][j + 1].rect

\* A 3 x 2 map of six tiles has been drawn with the camera at (-6, 7): of the
\* second row the first tile, which only touches the camera's right edge, is
\* submitted and the others are culled; the first row is above the camera.
C14_Witness ==
    /\ op.name = "draw"
    /\ current_map.width = 3
    /\ hist.data = <<1, 2, 3, 4, 5, 6>>
    /\ camera.pos = Point(-6, 7)
    /\ Len(hist.calls) = 1
    /\ hist.calls[1].row = 1 /\ hist.calls[1].col = 0
    /\ hist.calls[1].dst = Rect(6, -1, 4, 6)

\* C15 (SpecLayer): decoding layer index i returns an error and no data when
\* i is not an index of the layer list (NoLayerError), when the layer has no
\* data (NoDataError), when the data is not base64 (Base64Error) and when the
\* decoded bytes do not inflate (IoError); the missing-layer check comes
\* before the missing-data check; a byte array is returned only when none of
\* the four applies, and it is the inflated stream.
C15_DecodeErrors ==
    op.name = "data" =>
        LET ls       == hist.tmap.layers
            i        == hist.layer
            no_layer == i >= Len(ls)
            no_data  == ~no_layer /\ ~ls[i + 1].data.some
            bad_b64  == ~no_layer /\ ~no_data /\ ~ls[i + 1].data.str.base64_ok
            bad_zlib == ~no_layer /\ ~no_data /\ ~bad_b64
                        /\ ~ls[i + 1].data.str.decoded.inflate_ok
        IN  /\ no_layer => hist.ret.err = "NoLayerError"
            /\ no_data  => hist.ret.err = "NoDataError"
            /\ bad_b64  => hist.ret.err = "Base64Error"
            /\ bad_zlib => hist.ret.err = "IoError"
            /\ (no_layer \/ no_data \/ bad_b64 \/ bad_zlib) =>
                  ~hist.ret.ok /\ hist.ret.bytes = <<>>
            /\ hist.ret.ok <=> ~(no_layer \/ no_data \/ bad_b64 \/ bad_zlib)
            /\ hist.ret.ok =>
                  hist.ret.bytes = ls[i + 1].data.str.decoded.inflated
                  /\ hist.ret.err = "-"

\* Layer 1 of a map whose layer 0 has no data and whose layer 1 holds a
\* string that is base64 but does not inflate has been decoded: IoError.
C15_Witness ==
    /\ op.name = "data"
    /\ Len(hist.tmap.layers) = 2
    /\ ~hist.tmap.layers[1].data.some
    /\ hist.tmap.layers[2].data.some
    /\ hist.tmap.layers[2].data.str.base64_ok
    /\ ~hist.tmap.layers[2].data.str.decoded.inflate_ok
    /\ hist.layer = 1
    /\ hist.ret = Err("IoError")

\* C16 (SpecPhysics): after every Player update each velocity component is 0
\* or at least the velocity cutoff in magnitude, and acceleration.x is 0 or at
\* least the acceleration cutoff in magnitude: a decayed value strictly
\* inside (-cutoff, cutoff) is snapped to 0 and one outside is left as it is.
C16_CutoffSnap ==
    op.name = "player_update" =>
        LET q   == hist.pre
            dvx == TruncDiv((q.v.x + q.a.x) * 2, 10)
            dvy == TruncDiv((q.v.y + (98 * FP) \div 10) * 7, 10)
            dax == TruncDiv(q.a.x * 8, 10)
            vc  == 2 * FP
            ac  == FP \div 10
        IN  /\ me.v.x = 0 \/ me.v.x >= vc \/ me.v.x <= -vc
            /\ me.v.y = 0 \/ me.v.y >= vc \/ me.v.y <= -vc
            /\ me.a.x = 0 \/ me.a.x >= ac \/ me.a.x <= -ac
            /\ me.v.x = IF -vc < dvx /\ dvx < vc THEN 0 ELSE dvx
            /\ me.v.y = IF -vc < dvy /\ dvy < vc THEN 0 ELSE dvy
            /\ me.a.x = IF -ac < dax /\ dax < ac THEN 0 ELSE dax

\* An update has snapped a velocity.x that decayed to -1.0 and an
\* acceleration.x that decayed to 0.09, and has kept a velocity.y outside
\* the band.
C16_Witness ==
    /\ op.name = "player_update"
    /\ hist.pre.v.x = -5 * FP
    /\ hist.pre.a.x = 12
    /\ hist.pre.v.y = 0
    /\ me.v.x = 0
    /\ me.a.x = 0
    /\ me.v.y = 686

\* C17 (Spec): a tick in which a quit event or an Escape key-down is
\* processed leaves running false; running never becomes true again; and the
\* host loop performs no tick once running is false (every tick starts with
\* running true).
C17_QuitStopsLoop ==
    [][/\ running
       /\ op'.arg = "quit" => ~running'
       /\ ~running' => pc' # "loop"]_vars

\* A tick has processed a quit event: running is false and the loop is over.
C17_Witness ==
    /\ op.name = "frame"
    /\ op.arg = "quit"
    /\ ~running
    /\ pc = "done"

\* C18 (Spec): in every tick the camera is recentered only after the player's
\* position has been clamped to the map: the player position update_camera
\* reads has its collision rect within
\* [0, map pixel width] x [0, map pixel height].
C18_CameraReadsClamped ==
    (op.name = "frame" /\ pc # "panic") =>
        /\ 0 <= hist.seen.x + me.collision_rect.x
        /\ hist.seen.x + me.collision_rect.x + me.collision_rect.w <= pixel_width(current_map)
        /\ 0 <= hist.seen.y + me.collision_rect.y
        /\ hist.seen.y + me.collision_rect.y + me.collision_rect.h <= pixel_height(current_map)

\* C19 (SpecEntity): if the player jumps once or twice from a non-airborne
\* direction d, with ignored direction requests and further jump presses in
\* between, and then lands (keep_on_screen's change_dir(Landed)), the
\* direction right after the landing is d and last-direction is Landed.
C19_LandingRestores ==
    (/\ op.name = "keep_on_screen"
     /\ hist.jumped_from # "-"
     /\ LandsOn(keep_on_screen_x(hist.pre, op.w), op.h)) =>
        /\ me.dir = hist.jumped_from
        /\ me.l_dir = "Landed"

\* A flight started from Left and taken to DoubleUp has landed.
C19_Witness ==
    /\ op.name = "keep_on_screen"
    /\ hist.jumped_from = "Left"
    /\ hist.pre.dir = "DoubleUp"
    /\ LandsOn(keep_on_screen_x(hist.pre, op.w), op.h)
    /\ me.dir = "Left"
    /\ me.l_dir = "Landed"

\* C20 (SpecPhysics): after every Player update a direction of Right or Left
\* comes with a horizontal velocity other than 0: when velocity.x is exactly
\* 0 at the animation step and the direction is Right (Left), the direction
\* becomes StillRight (StillLeft), last-direction becomes Right (Left) and
\* the animation cursors are reset: whatever they were, they are those of
\* the reset (sc = 1, ac = 0), advanced by the update's animation step when
\* the entity has a draw rect.
C20_StillWhenStopped ==
    op.name = "player_update" =>
        LET q      == hist.pre
            frames == me.anim.dir_to_frames[me.dir]
            reset  == IF me.draw_rect
                      THEN me.anim.ac = 1 /\ me.anim.sc = (IF 2 > frames - 1 THEN 0 ELSE 2)
                      ELSE me.anim.ac = 0 /\ me.anim.sc = 1
        IN  /\ me.dir \in {"Right", "Left"} => me.v.x # 0
            /\ (q.dir = "Right" /\ me.v.x = 0) =>
                  me.dir = "StillRight" /\ me.l_dir = "Right" /\ reset
            /\ (q.dir = "Left" /\ me.v.x = 0) =>
                  me.dir = "StillLeft" /\ me.l_dir = "Left" /\ reset

\* An entity going left with its cursors in mid-cycle has come to rest in an
\* update: it is StillLeft, with the cursors of a reset and one step.
C20_Witness ==
    /\ op.name = "player_update"
    /\ hist.pre.dir = "Left"
    /\ hist.pre.v.x # 0
    /\ hist.pre.anim.ac = 2
    /\ hist.pre.anim.sc = 1
    /\ me.draw_rect
    /\ me.v.x = 0
    /\ me.dir = "StillLeft"
    /\ me.l_dir = "Left"
    /\ me.anim.ac = 1
    /\ me.anim.sc = 0

C22_DeadZoneHolds ==
    LET c  == hist.pre
        dz == c.collision_rect
        player_left   == me.pos.x + me.collision_rect.x
        player_right  == player_left + me.collision_rect.w
        player_top    == me.pos.y + me.collision_rect.y
        player_bottom == player_top + me.collision_rect.h
    IN  (/\ op.name = "update_camera"
         /\ c.pos.x + dz.x <= player_left
         /\ player_right <= c.pos.x + dz.x + dz.w
         /\ c.pos.y + dz.y <= player_top
         /\ player_bottom <= c.pos.y + dz.y + dz.h
         /\ 0 <= c.pos.x
         /\ c.pos.x <= pixel_width(current_map) - c.width
         /\ 0 <= c.pos.y
         /\ c.pos.y <= pixel_height(current_map) - c.height)
        => camera.pos = c.pos

\* update_camera has acted on the 200 x 200 camera at (100, 100), whose dead
\* zone is [150, 250] x [150, 250], with the player's rect at [160, 192] x
\* [150, 210]: the camera is where it was.
C22_Witness ==
    /\ op.name = "update_camera"
    /\ hist.pre.pos = Point(100, 100)
    /\ hist.pre.collision_rect = Rect(50, 50, 100, 100)
    /\ me.pos = Point(150, 150)
    /\ me.collision_rect = MainRect
    /\ camera.pos = Point(100, 100)

\* C26 (SpecCamera): after update_camera the camera position is non-negative
\* on both axes, for every map size.
C26_CameraNonNegative ==
    op.name = "update_camera" => camera.pos.x >= 0 /\ camera.pos.y >= 0

\* C23 (SpecLive): with a map active and ticks continuing to occur, from every
\* state in which the direction is Up or DoubleUp the player eventually lands:
\* keep_on_screen clamps it at the bottom and the direction leaves
\* {Up, DoubleUp}, whatever the jump, left and right inputs.
C23_EventuallyLands ==
    (pc = "loop" /\ me.dir \in Airborne) ~> (hist.landed /\ me.dir \notin Airborne)

\* The tick has landed main.rs's player after keys were held: it is on the
\* map's bottom edge, back in a direction on the ground, and the loop goes on.
C23_Witness ==
    /\ pc = "loop"
    /\ hist.landed
    /\ hist.keys > 0
    /\ me.l_dir = "Landed"
    /\ me.dir \in {"Right", "StillRight"}
    /\ me.pos.y + me.collision_rect.h = pixel_height(current_map)

\* C24 (Spec): at every draw of an animated entity the frame index used for
\* the source rect (the frame cursor, or frames - frame cursor when reverse is
\* set and frames > 1) is within 0..frames-1 for the frame count of the
\* current direction.
C24_DrawIndexInRange ==
    (op.name = "frame" /\ pc # "panic" /\ me.draw_rect) =>
        draw_frame_index(me) \in 0..(me.anim.dir_to_frames[me.dir] - 1)

\* C25 (Spec): at every render, for a map at least as large as the viewport, a
\* dead zone contained in the viewport and a player collision rect that fits
\* in the dead zone, the player's collision rect in screen coordinates (world
\* position minus camera position) lies within
\* [0, viewport width] x [0, viewport height].
C25_PlayerInViewport ==
    LET dz == camera.collision_rect
        cr == me.collision_rect
        screen_left == me.pos.x + cr.x - camera.pos.x
        screen_top  == me.pos.y + cr.y - camera.pos.y
    IN  (/\ op.name = "frame"
         /\ pc # "panic"
         /\ pixel_width(current_map) >= camera.width
         /\ pixel_height(current_map) >= camera.height
         /\ 0 <= dz.x /\ dz.x + dz.w <= camera.width
         /\ 0 <= dz.y /\ dz.y + dz.h <= camera.height
         /\ cr.w <= dz.w /\ cr.h <= dz.h)
        => /\ 0 <= screen_left
           /\ screen_left + cr.w <= camera.width
           /\ 0 <= screen_top
           /\ screen_top + cr.h <= camera.height

=============================================================================
